---- MODULE Spec2Model ----
(***************************************************************************)
(* dec-utils (src/src/lib.rs): three pure formatters over rust_decimal's   *)
(* Decimal.                                                                *)
(*                                                                         *)
(*   dec_to_string_or_empty(d: Option<Decimal>) -> String                  *)
(*   dec_to_usd_string(v: Decimal) -> String                               *)
(*   dec_to_separated_string(v: Decimal, dp: u32) -> String                *)
(*                                                                         *)
(* A Decimal is a sign bit, an unscaled magnitude and a scale.  The        *)
(* magnitude is kept as its sequence of decimal digits (most significant   *)
(* first, no leading zeros, <<>> for zero) so that magnitudes beyond 2^31  *)
(* (the i32 limit inside the currency parser is one of the cases) can be   *)
(* modelled.  A String is a sequence of one-character strings.             *)
(***************************************************************************)
EXTENDS Integers, Sequences, FiniteSets, TLC

VARIABLES v, dp, pc, result, panicked

vars == <<v, dp, pc, result, panicked>>

(***************************************************************************)
(* Bounds of the input domain.                                             *)
(***************************************************************************)
MaxScale == 3
MaxDp == 2
MaxIntDigits == 7
MaxSmallInt == 2

\* Digits a fractional input digit is drawn from: one of each class that
\* rounding distinguishes (even/odd below five, five, even/odd above five).
FracDigits == {0, 1, 2, 4, 5, 6, 9}

(***************************************************************************)
(* Digit sequences and text.                                               *)
(***************************************************************************)
Max(a, b) == IF a >= b THEN a ELSE b

Min(a, b) == IF a <= b THEN a ELSE b

Zeros(n) == [i \in 1..n |-> 0]

RECURSIVE Norm(_)
\* drop leading zeros
Norm(ds) == IF ds = <<>> THEN <<>>
            ELSE IF ds[1] = 0 THEN Norm(Tail(ds)) ELSE ds

DigitChars == <<"0", "1", "2", "3", "4", "5", "6", "7", "8", "9">>

Chr(d) == DigitChars[d + 1]

IsDigitChar(c) == \E d \in 0..9 : Chr(d) = c

Ord(c) == CHOOSE d \in 0..9 : Chr(d) = c

Chars(ds) == [i \in 1..Len(ds) |-> Chr(ds[i])]

Ords(s) == [i \in 1..Len(s) |-> Ord(s[i])]

Drop(s, n) == SubSeq(s, n + 1, Len(s))

Take(s, n) == SubSeq(s, 1, n)

RECURSIVE Remove(_, _)
\* s without the occurrences of c
Remove(s, c) == IF s = <<>> THEN <<>>
                ELSE IF s[1] = c THEN Remove(Tail(s), c)
                ELSE <<s[1]>> \o Remove(Tail(s), c)

Count(s, c) == Cardinality({i \in 1..Len(s) : s[i] = c})

\* index of the first c in s, Len(s) + 1 when there is none
IndexOf(s, c) == IF \E i \in 1..Len(s) : s[i] = c
                 THEN CHOOSE i \in 1..Len(s) : s[i] = c /\ \A j \in 1..(i - 1) : s[j] # c
                 ELSE Len(s) + 1

\* a <= b for magnitudes without leading zeros
LeqDigits(a, b) ==
    \/ Len(a) < Len(b)
    \/ /\ Len(a) = Len(b)
       /\ \/ a = b
          \/ \E i \in 1..Len(a) : a[i] < b[i] /\ \A j \in 1..(i - 1) : a[j] = b[j]

(***************************************************************************)
(* rust_decimal::Decimal                                                   *)
(***************************************************************************)
\* Decimal::MAX, the largest magnitude: 2^96 - 1
DecimalMax == <<7, 9, 2, 2, 8, 1, 6, 2, 5, 1, 4, 2, 6, 4, 3, 3, 7, 5, 9, 3, 5, 4, 3, 9, 5, 0, 3, 3, 5>>

\* u128::MAX: 2^128 - 1
U128Max == <<3, 4, 0, 2, 8, 2, 3, 6, 6, 9, 2, 0, 9, 3, 8, 4, 6, 3, 4, 6,
             3, 3, 7, 4, 6, 0, 7, 4, 3, 1, 7, 6, 8, 2, 1, 1, 4, 5, 5>>

IsZero(d) == d.digits = <<>>

\* Decimal::from_parts, which dec!() expands to: zero never carries the sign
Dec(neg, digits, scale) ==
    [neg |-> neg /\ Norm(digits) # <<>>, digits |-> Norm(digits), scale |-> scale]

\* Decimal::abs
Abs(d) == [d EXCEPT !.neg = FALSE]

\* Display for Decimal / to_string: sign, integral digits, and the stored
\* scale's worth of fractional digits
ToStr(d) ==
    LET padded == Zeros(Max(0, d.scale + 1 - Len(d.digits))) \o d.digits
        n == Len(padded) - d.scale
    IN  (IF d.neg THEN <<"-">> ELSE <<>>)
        \o Chars(Take(padded, n))
        \o (IF d.scale > 0 THEN <<".">> \o Chars(Drop(padded, n)) ELSE <<>>)

RECURSIVE Inc(_)
\* magnitude + 1
Inc(ds) == IF ds = <<>> THEN <<1>>
           ELSE IF ds[Len(ds)] < 9 THEN Take(ds, Len(ds) - 1) \o <<ds[Len(ds)] + 1>>
           ELSE Inc(Take(ds, Len(ds) - 1)) \o <<0>>

\* round_dp with ties away from zero instead of to even
RoundDpHalfUp(d, n) ==
    IF IsZero(d) THEN [neg |-> d.neg, digits |-> <<>>, scale |-> n]
    ELSE IF d.scale <= n THEN d
    ELSE LET k == d.scale - n
             padded == Zeros(Max(0, k - Len(d.digits))) \o d.digits
             keep == Take(padded, Len(padded) - k)
             drop == Drop(padded, Len(padded) - k)
         IN  [neg |-> d.neg,
              digits |-> Norm(IF drop[1] >= 5 THEN Inc(keep) ELSE keep),
              scale |-> n]

\* Decimal::round_dp: banker's rounding to n fractional digits; a value that
\* already has no more than n fractional digits is returned as it is, and
\* zero is returned with scale n
RoundDp(d, n) ==
    IF IsZero(d) THEN [neg |-> d.neg, digits |-> <<>>, scale |-> n]
    ELSE IF d.scale <= n THEN d
    ELSE LET k == d.scale - n
             padded == Zeros(Max(0, k - Len(d.digits))) \o d.digits
             keep == Take(padded, Len(padded) - k)
             drop == Drop(padded, Len(padded) - k)
             restNonZero == \E i \in 2..k : drop[i] # 0
             lastKept == IF keep = <<>> THEN 0 ELSE keep[Len(keep)]
             up == \/ drop[1] > 5
                   \/ drop[1] = 5 /\ (restNonZero \/ lastKept % 2 = 1)
         IN  [neg |-> d.neg,
              digits |-> Norm(IF up THEN Inc(keep) ELSE keep),
              scale |-> n]

\* Decimal::trunc: the integral part, scale 0
Trunc(d) ==
    [neg |-> d.neg,
     digits |-> Take(d.digits, Max(0, Len(d.digits) - d.scale)),
     scale |-> 0]

\* fract() that keeps the scale of a zero receiver
FractKeepScale(d) ==
    IF IsZero(Trunc(d)) THEN d
    ELSE [neg |-> d.neg /\ Norm(Drop(d.digits, Len(d.digits) - d.scale)) # <<>>,
          digits |-> Norm(Drop(d.digits, Len(d.digits) - d.scale)),
          scale |-> d.scale]

\* Decimal::fract: self - self.trunc().  The subtraction returns its right
\* operand when the left one is zero and its left operand when the right one
\* is zero; otherwise the difference has the larger scale of the two.
Fract(d) ==
    IF IsZero(d) THEN Trunc(d)
    ELSE IF IsZero(Trunc(d)) THEN d
    ELSE [neg |-> d.neg /\ Norm(Drop(d.digits, Len(d.digits) - d.scale)) # <<>>,
          digits |-> Norm(Drop(d.digits, Len(d.digits) - d.scale)),
          scale |-> d.scale]

None == [none |-> TRUE]

Some(x) == [none |-> FALSE, val |-> x]

\* Decimal::to_u128: None for a negative value or one beyond u128::MAX, else
\* the integral magnitude
ToU128(d) ==
    IF d.neg \/ ~LeqDigits(Trunc(d).digits, U128Max) THEN None ELSE Some(Trunc(d).digits)

(***************************************************************************)
(* separator::Separatable::separated_string for an unsigned integer        *)
(***************************************************************************)
RECURSIVE SepLoop(_, _, _)
\* the loop over the characters: place counts the characters left
SepLoop(s, place, later_loop) ==
    IF s = <<>> THEN <<>>
    ELSE (IF later_loop /\ place % 3 = 0 THEN <<",">> ELSE <<>>)
         \o <<s[1]>> \o SepLoop(Tail(s), place - 1, TRUE)

\* a separator before every third digit, the first digit included
SeparatedStringLeading(digits) ==
    LET s == IF digits = <<>> THEN <<"0">> ELSE Chars(digits)
    IN  SepLoop(s, Len(s), TRUE)

SeparatedString(digits) ==
    LET s == IF digits = <<>> THEN <<"0">> ELSE Chars(digits)
    IN  SepLoop(s, Len(s), FALSE)

(***************************************************************************)
(* dec_to_string_or_empty                                                  *)
(***************************************************************************)
Ret(s) == [panic |-> FALSE, str |-> s]

Panic == [panic |-> TRUE, str |-> <<>>]

\* renders the value rounded to two places instead of the value
dec_to_string_or_empty_rounded(d) ==
    IF ~d.none THEN Ret(ToStr(RoundDp(d.val, 2))) ELSE Ret(<<>>)

dec_to_string_or_empty(d) ==
    IF ~d.none THEN Ret(ToStr(d.val)) ELSE Ret(<<>>)

(***************************************************************************)
(* dec_to_separated_string                                                 *)
(***************************************************************************)
\* the sign is kept while rounding
RoundedSigned(val, n) == RoundDp(val, n)

Rounded(val, n) == RoundDp(Abs(val), n)

\* the integral part of the value before rounding
IntegralPartUnrounded(val, n) == Trunc(Abs(val))

IntegralPart(val, n) == Trunc(Rounded(val, n))

FractionalPart(val, n) == Fract(Rounded(val, n))

\* the text of the fractional part, leading "0" not skipped
FractionalPartStrWhole(val, n) ==
    IF n = 0 THEN Ret(<<>>) ELSE Ret(ToStr(FractionalPart(val, n)))

\* the text of the fractional part without its first byte; the slice [1..]
\* panics on an empty text
FractionalPartStr(val, n) ==
    LET fractional_part_string == ToStr(FractionalPart(val, n))
    IN  IF n = 0 THEN Ret(<<>>)
        ELSE IF Len(fractional_part_string) < 1 THEN Panic
        ELSE Ret(Drop(fractional_part_string, 1))

dec_to_separated_string(val, n) ==
    LET negative == val.neg
        integral == ToU128(IntegralPart(val, n))
        fractional_part_str == FractionalPartStr(val, n)
    IN  IF fractional_part_str.panic \/ integral.none THEN Panic
        ELSE Ret((IF negative THEN <<"-">> ELSE <<>>)
                 \o SeparatedString(integral.val)
                 \o fractional_part_str.str)

(***************************************************************************)
(* dec_to_usd_string, through rusty_money's Money::from_str and Display    *)
(***************************************************************************)
UsdExponent == 2

I32Max == <<2, 1, 4, 7, 4, 8, 3, 6, 4, 7>>

I32MinMagnitude == <<2, 1, 4, 7, 4, 8, 3, 6, 4, 8>>

\* i32::from_str succeeds: an optional sign, at least one digit, in range
I32FromStrOk(s) ==
    LET signed == s # <<>> /\ s[1] \in {"-", "+"}
        body == IF signed THEN Tail(s) ELSE s
    IN  /\ body # <<>>
        /\ \A i \in 1..Len(body) : IsDigitChar(body[i])
        /\ LeqDigits(Norm(Ords(body)),
                     IF signed /\ s[1] = "-" THEN I32MinMagnitude ELSE I32Max)

\* Decimal::from_str of a well-formed text
DecimalFromStr(s) ==
    LET negative == s # <<>> /\ s[1] = "-"
        body == IF negative THEN Tail(s) ELSE s
        point == IndexOf(body, ".")
    IN  [neg |-> negative,
         digits |-> Norm(Ords(Remove(body, "."))),
         scale |-> Max(0, Len(body) - point)]

Ok(x) == [ok |-> TRUE, val |-> x]

InvalidAmount == [ok |-> FALSE, err |-> <<"Amount not parsable">>]

\* Money::from_str(amount, iso::USD): the text is split at the exponent
\* separator "."; the integral text, digit separators removed, and the
\* fractional text must each parse as an i32; an amount without a fractional
\* text gets the currency's exponent of zeros
MoneyFromStr(amount) ==
    LET point == IndexOf(amount, ".")
        n_parts == Count(amount, ".") + 1
        part0 == Remove(Take(amount, point - 1), ",")
        part1 == Drop(amount, point)
    IN  IF ~I32FromStrOk(part0) THEN InvalidAmount
        ELSE IF n_parts = 1 THEN Ok(DecimalFromStr(part0 \o <<".">> \o Chars(Zeros(UsdExponent))))
        ELSE IF n_parts = 2
             THEN IF ~I32FromStrOk(part1) THEN InvalidAmount
                  ELSE Ok(DecimalFromStr(part0 \o <<".">> \o part1))
        ELSE InvalidAmount

InsertAt(s, idx, c) == Take(s, idx) \o <<c>> \o Drop(s, idx)

RECURSIVE FormatDigits(_, _, _)
\* Formatter::digits: one separator per entry of the locale's pattern
FormatDigits(digits, current_position, pattern) ==
    IF pattern = <<>> THEN digits
    ELSE IF Len(digits) > current_position + pattern[1]
         THEN FormatDigits(InsertAt(digits, Len(digits) - current_position - pattern[1], ","),
                           current_position + pattern[1] + 1, Tail(pattern))
         ELSE FormatDigits(digits, current_position, Tail(pattern))

\* Formatter::amount: the digits grouped, then "." and the fractional text
\* when the amount's text has one
FormatAmount(raw_amount) ==
    LET point == IndexOf(raw_amount, ".")
        amount_digits == Remove(Take(raw_amount, point - 1), "-")
    IN  FormatDigits(amount_digits, 0, <<3, 3, 3>>)
        \o (IF point <= Len(raw_amount) THEN <<".">> \o Drop(raw_amount, point) ELSE <<>>)

\* Display for Money in USD: sign, symbol, amount; the amount is rounded to
\* the currency's exponent, and -0 is not negative
MoneyDisplay(amount) ==
    LET decimal == RoundDp(amount, UsdExponent)
    IN  (IF amount.neg /\ ~IsZero(amount) THEN <<"-">> ELSE <<>>)
        \o <<"$">>
        \o FormatAmount(ToStr(Abs(decimal)))

\* the error of the currency parser is unwrapped instead of rendered
dec_to_usd_string_unwrap(val) ==
    LET v_string == ToStr(RoundDp(val, UsdExponent))
        money == MoneyFromStr(v_string)
    IN  IF money.ok THEN Ret(MoneyDisplay(money.val)) ELSE Panic

dec_to_usd_string(val) ==
    LET v_string == ToStr(RoundDp(val, UsdExponent))
        money == MoneyFromStr(v_string)
    IN  IF money.ok THEN Ret(MoneyDisplay(money.val))
        ELSE Ret(<<"(">> \o v_string \o <<" ">> \o money.err \o <<")">>)

(***************************************************************************)
(* The inputs                                                              *)
(***************************************************************************)
RECURSIVE DigitsOf(_)
DigitsOf(n) == IF n = 0 THEN <<>> ELSE DigitsOf(n \div 10) \o <<n % 10>>

Nines(k) == [i \in 1..k |-> 9]

PowTen(k) == <<1>> \o Zeros(k - 1)

Counting(k) == [i \in 1..k |-> i % 10]

\* i32::MAX, -i32::MIN and the next magnitude
I32Edge == {<<2, 1, 4, 7, 4, 8, 3, 6, 4, 7>>,
            <<2, 1, 4, 7, 4, 8, 3, 6, 4, 8>>,
            <<2, 1, 4, 7, 4, 8, 3, 6, 4, 9>>}

IntParts ==
    {DigitsOf(n) : n \in 0..MaxSmallInt}
    \cup {Nines(k) : k \in 1..MaxIntDigits}
    \cup {PowTen(k) : k \in 1..MaxIntDigits}
    \cup {Counting(k) : k \in 1..MaxIntDigits}
    \cup I32Edge

FracParts == UNION {[1..s -> FracDigits] : s \in 0..MaxScale}

\* the decimals of the model: an integral part followed by fractional digits,
\* and the largest magnitude at every scale
Decimals ==
    {Dec(neg, ip \o fr, Len(fr)) : neg \in BOOLEAN, ip \in IntParts, fr \in FracParts}
    \cup {Dec(neg, DecimalMax, s) : neg \in BOOLEAN, s \in 0..MaxScale}

Inputs == {None} \cup {Some(x) : x \in Decimals}

(***************************************************************************)
(* The state machine: an input is drawn, one of the functions is applied   *)
(***************************************************************************)
Init ==
    /\ v \in Inputs
    /\ dp = 0
    /\ pc = "start"
    /\ result = <<>>
    /\ panicked = FALSE

CallStringOrEmpty ==
    /\ pc = "start"
    /\ LET r == dec_to_string_or_empty(v)
       IN  /\ result' = r.str
           /\ panicked' = r.panic
    /\ pc' = "string_or_empty"
    /\ UNCHANGED <<v, dp>>

CallSeparated ==
    /\ pc = "start"
    /\ ~v.none
    /\ \E n \in 0..MaxDp :
          /\ dp' = n
          /\ LET r == dec_to_separated_string(v.val, n)
             IN  /\ result' = r.str
                 /\ panicked' = r.panic
    /\ pc' = "separated"
    /\ UNCHANGED v

CallUsd ==
    /\ pc = "start"
    /\ ~v.none
    /\ LET r == dec_to_usd_string(v.val)
       IN  /\ result' = r.str
           /\ panicked' = r.panic
    /\ pc' = "usd"
    /\ UNCHANGED <<v, dp>>

Next == CallStringOrEmpty \/ CallUsd \/ CallSeparated

Spec == Init /\ [][Next]_vars

TypeOK ==
    /\ v \in Inputs
    /\ dp \in 0..MaxDp
    /\ pc \in {"start", "string_or_empty", "usd", "separated"}
    /\ panicked \in BOOLEAN

(***************************************************************************)
(* Reading a result back, and exact arithmetic on small magnitudes          *)
(***************************************************************************)
RECURSIVE Val(_)
Val(ds) == IF ds = <<>> THEN 0 ELSE 10 * Val(Take(ds, Len(ds) - 1)) + ds[Len(ds)]

RECURSIVE Pow10(_)
Pow10(k) == IF k = 0 THEN 1 ELSE 10 * Pow10(k - 1)

Dist(a, b) == IF a >= b THEN a - b ELSE b - a

Unsigned(s) == IF s # <<>> /\ s[1] = "-" THEN Tail(s) ELSE s

IntText(s) == Take(Unsigned(s), IndexOf(Unsigned(s), ".") - 1)

FracText(s) == Drop(Unsigned(s), IndexOf(Unsigned(s), "."))

\* q * 10^-f is m * 10^-s rounded half-to-even to n fractional digits: it has
\* no more than n fractional digits, no n-digit value is nearer to m * 10^-s,
\* and when two are equally near it is the even one
IsHalfEvenOf(q, f, m, s, n) ==
    LET t == Max(s, n)
        Q == q * Pow10(t - f)
        M == m * Pow10(t - s)
        U == Pow10(t - n)
    IN  /\ f <= n
        /\ 2 * Dist(Q, M) <= U
        /\ 2 * Dist(Q, M) = U => (Q \div U) % 2 = 0

\* the magnitude fits the exact arithmetic above
Small(val, n) == Len(val.digits) + Max(val.scale, n) - val.scale <= 9

\* |val| rounded half-to-even to n fractional digits is zero
RoundsToZero(val, n) ==
    \/ IsZero(val)
    \/ /\ val.scale > n
       /\ Len(val.digits) <= val.scale - n
       /\ 2 * Val(val.digits) <= Pow10(val.scale - n)

\* a = b as numbers
NumEq(a, b) ==
    LET t == Max(a.scale, b.scale)
        A == Norm(a.digits \o Zeros(t - a.scale))
        B == Norm(b.digits \o Zeros(t - b.scale))
    IN  A = B /\ (A = <<>> \/ a.neg = b.neg)

Returned(fn) == pc = fn /\ ~panicked

D(neg, digits, scale) == Some(Dec(neg, digits, scale))

(***************************************************************************)
(* C1: dec_to_separated_string never gives a leading "-" for a value whose *)
(* magnitude rounds (half-to-even, to dp digits) to zero.                   *)
(***************************************************************************)
C1_NoSignOnZero ==
    (Returned("separated") /\ RoundsToZero(v.val, dp)) => (result # <<>> /\ result[1] # "-")

(***************************************************************************)
(* C2: the digits dec_to_separated_string returns are those of |v| rounded *)
(* half-to-even to dp fractional digits: the nearest dp-digit value, and   *)
(* the even neighbour when v lies halfway.                                  *)
(***************************************************************************)
C2_RoundHalfEven ==
    (pc = "separated" /\ Small(v.val, dp)) =>
        /\ ~panicked
        /\ IsHalfEvenOf(Val(Ords(Remove(IntText(result), ",") \o FracText(result))),
                        Len(FracText(result)),
                        Val(v.val.digits), v.val.scale, dp)

C2_Witness ==
    /\ Returned("separated")
    /\ v = D(FALSE, <<1, 2, 3, 1, 2, 5>>, 3)
    /\ dp = 2
    /\ result = <<"1", "2", "3", ".", "1", "2">>

(***************************************************************************)
(* C3: on its success path dec_to_usd_string returns (after the sign of a  *)
(* negative amount) "$", the comma-grouped integral part of v rounded      *)
(* half-to-even to 2 digits, ".", and exactly 2 fractional digits.          *)
(***************************************************************************)
C3_UsdTwoDigits ==
    (Returned("usd") /\ result[1] # "(" /\ Small(v.val, UsdExponent)) =>
        LET body == Tail(Unsigned(result))
        IN  /\ Unsigned(result)[1] = "$"
            /\ Count(body, ".") = 1
            /\ Len(FracText(body)) = UsdExponent
            /\ IntText(body) = SeparatedString(Norm(Ords(Remove(IntText(body), ","))))
            /\ IsHalfEvenOf(Val(Ords(Remove(IntText(body), ",") \o FracText(body))),
                            Len(FracText(body)),
                            Val(v.val.digits), v.val.scale, UsdExponent)

(***************************************************************************)
(* C4: when rounding |v| to dp digits carries the integral part over a     *)
(* power of ten (n nines become 1 followed by n zeros), the separators are *)
(* those of the carried value: floor(n / 3) of them, grouping n + 1 digits. *)
(***************************************************************************)
CarryCase(val, n) ==
    LET int == Take(val.digits, Max(0, Len(val.digits) - val.scale))
        frac == Drop(val.digits, Len(int))
    IN  /\ val.scale > n
        /\ int # <<>>
        /\ \A i \in 1..Len(int) : int[i] = 9
        /\ 2 * Val(frac) >= 2 * Pow10(val.scale) - Pow10(val.scale - n)

C4_CarryGrouping ==
    (pc = "separated" /\ CarryCase(v.val, dp)) =>
        LET n == Len(v.val.digits) - v.val.scale
            int == IntText(result)
        IN  /\ ~panicked
            /\ Remove(int, ",") = Chars(PowTen(n + 1))
            /\ Count(int, ",") = n \div 3
            /\ \A i \in 1..Len(int) : int[i] = "," <=> (Len(int) - i) % 4 = 3

C4_Witness ==
    /\ Returned("separated")
    /\ v = D(TRUE, <<9, 9, 9, 9>>, 1)
    /\ dp = 0
    /\ result = <<"-", "1", ",", "0", "0", "0">>

(***************************************************************************)
(* C5: the integral part of n digits is returned with floor((n-1)/3)       *)
(* separators, each followed by exactly 3 digits before the next separator *)
(* or the end of the integral part, none of them leading, and without the  *)
(* separators it is the digit string of the integral part.                  *)
(***************************************************************************)
C5_Grouping ==
    pc = "separated" =>
        LET int == IntText(result)
            digits == IntegralPart(v.val, dp).digits
            n == Max(1, Len(digits))
        IN  /\ ~panicked
            /\ Count(int, ",") = (n - 1) \div 3
            /\ int[1] # ","
            /\ \A i \in 1..Len(int) :
                  int[i] = "," =>
                     /\ i + 3 <= Len(int)
                     /\ \A j \in (i + 1)..(i + 3) : IsDigitChar(int[j])
                     /\ i + 3 = Len(int) \/ int[i + 4] = ","
            /\ Remove(int, ",") = (IF digits = <<>> THEN <<"0">> ELSE Chars(digits))

C5_Witness ==
    /\ Returned("separated")
    /\ v = D(FALSE, <<1, 2, 3, 4, 5, 6, 7, 5>>, 1)
    /\ dp = 0
    /\ result = <<"1", ",", "2", "3", "4", ",", "5", "6", "8">>

(***************************************************************************)
(* C6: the result of dec_to_separated_string without its separators parses *)
(* to a decimal numerically equal to v rounded half-to-even to dp digits,  *)
(* and formatting that decimal again with the same dp gives a text that    *)
(* parses to the same value.                                                *)
(***************************************************************************)
C6_RoundTrip ==
    pc = "separated" =>
        LET parsed == DecimalFromStr(Remove(result, ","))
            again == dec_to_separated_string(Dec(parsed.neg, parsed.digits, parsed.scale), dp)
        IN  /\ ~panicked
            /\ Small(v.val, dp) =>
                  /\ IsHalfEvenOf(Val(parsed.digits), parsed.scale,
                                  Val(v.val.digits), v.val.scale, dp)
                  /\ IsZero(parsed) \/ parsed.neg = v.val.neg
            /\ ~again.panic
            /\ NumEq(DecimalFromStr(Remove(again.str, ",")), parsed)

C6_Witness ==
    /\ Returned("separated")
    /\ v = D(TRUE, <<1, 0, 0, 0, 0, 2, 6>>, 3)
    /\ dp = 2
    /\ result = <<"-", "1", ",", "0", "0", "0", ".", "0", "3">>

(***************************************************************************)
(* C7: dec_to_separated_string returns a text for every decimal and every  *)
(* dp: the conversion to u128 succeeds and the slice of the fractional     *)
(* text is in bounds.                                                       *)
(***************************************************************************)
C7_Total ==
    pc = "separated" =>
        /\ ~panicked
        /\ result # <<>>
        /\ \A i \in 1..Len(result) : IsDigitChar(result[i]) \/ result[i] \in {"-", ",", "."}

C7_Witness ==
    /\ Returned("separated")
    /\ v = D(TRUE, DecimalMax, 3)
    /\ dp = 2
    /\ Remove(result, ",") = <<"-">> \o Chars(Take(DecimalMax, 26)) \o <<".", "3", "4">>

(***************************************************************************)
(* C8: dec_to_usd_string always returns a text; when the currency parser   *)
(* rejects the text of v rounded to 2 digits (its integral part is outside *)
(* the i32 range) the result is "(" + that text + " " + the error's        *)
(* description + ")", and only then.                                        *)
(***************************************************************************)
OutsideI32(d) ==
    ~LeqDigits(Trunc(d).digits, IF d.neg THEN I32MinMagnitude ELSE I32Max)

C8_UsdFallback ==
    pc = "usd" =>
        LET rounded == RoundDp(v.val, UsdExponent)
        IN  /\ ~panicked
            /\ result # <<>>
            /\ OutsideI32(rounded) =>
                  result = <<"(">> \o ToStr(rounded) \o <<" ", "Amount not parsable", ")">>
            /\ ~OutsideI32(rounded) => result[1] \in {"$", "-"}

C8_Witness ==
    /\ Returned("usd")
    /\ v = D(FALSE, <<2, 1, 4, 7, 4, 8, 3, 6, 4, 7, 9, 9, 5>>, 3)
    /\ result = <<"(", "2", "1", "4", "7", "4", "8", "3", "6", "4", "8", ".", "0", "0",
                  " ", "Amount not parsable", ")">>

(***************************************************************************)
(* C9: dec_to_string_or_empty(Some(v)) is the canonical text of v (its     *)
(* sign, its integral digits and exactly its stored scale of fractional    *)
(* digits, no separators, no rounding), dec_to_string_or_empty(None) is    *)
(* the empty text, and the function never fails.                            *)
(***************************************************************************)
C9_StringOrEmpty ==
    pc = "string_or_empty" =>
        /\ ~panicked
        /\ v.none => result = <<>>
        /\ ~v.none =>
              /\ Count(result, ",") = 0
              /\ Count(result, ".") = (IF v.val.scale > 0 THEN 1 ELSE 0)
              /\ Len(FracText(result)) = v.val.scale
              /\ Len(IntText(result)) = Max(1, Len(v.val.digits) - v.val.scale)
              /\ DecimalFromStr(result) = v.val

C9_Witness ==
    /\ Returned("string_or_empty")
    /\ v = D(TRUE, <<1, 0, 2, 4, 0>>, 3)
    /\ result = <<"-", "1", "0", ".", "2", "4", "0">>

====
